---- MODULE Spec2Model ----
(***************************************************************************)
(* Model of the pingpong game (src/src/main.rs): the Game struct, the main *)
(* loop and the per-frame operations process_input, update and render.     *)
(*                                                                         *)
(* Numbers.  The source computes in f32 pixels and f32 seconds.  The model *)
(* is fixed point: lengths are integers counted in 1/SubPixel pixel (the   *)
(* ball's centred position 392.5 is 785), durations are integers counted   *)
(* in clock ticks of 1/TicksPerSecond second, and velocities are lengths   *)
(* per second.  Every product velocity * delta_time that occurs is exact.  *)
(*                                                                         *)
(* Instants.  The program only ever subtracts Instants, so an Instant is   *)
(* kept relative to the present: Instant::now() is 0 and an instant that   *)
(* lies d ticks in the past is -d.  The clock advances only in the sleep   *)
(* at the end of a frame; all Instant::now() calls of one update agree.    *)
(***************************************************************************)
EXTENDS Integers, Sequences, FiniteSets, TLC

\* ---- bounds of the model ----
MaxDelta == 2      \* longest frame period, in clock ticks
MaxOverruns == 1   \* frames of a run that may last more than one tick
MaxScore == 2      \* a frame is started only while score < MaxScore or in a pause

\* ---- fixed point ----
SubPixel == 2
TicksPerSecond == 8
Px(n) == n * SubPixel
Secs(n) == n * TicksPerSecond
Now == 0

\* Option<Instant>
None == <<>>
Some(t) == <<t>>
Unwrap(o) == o[1]

\* ---- constants of the program ----
WINDOW_WIDTH == 800
WINDOW_HEIGHT == 600
FRAME_TARGET_TIME == 16
PAUSE_DURATION == Secs(2)

\* The Game struct (without the window handle) is one record; ball and
\* paddle are GameObject records.
\* buffer is the pixel buffer of main: the set of runs <<first, last>> of
\* consecutive indices whose cells hold 0xFFFFFFFF; every other cell holds 0.
VARIABLES game, buffer, pc, down, window_open, upd, mark, overruns

vars == <<game, buffer, pc, down, window_open, upd, mark, overruns>>

Keys == {"Escape", "Left", "Right"}

\* Instant::elapsed and the subtraction of two Instants
Elapsed(start) == Now - start

\* GameObject edges
Right(o) == o.x + o.width
Bottom(o) == o.y + o.height

\* Game::new: the ball and the paddle
NewBall == [x |-> Px(20), y |-> Px(20), width |-> Px(15), height |-> Px(15),
            vel_x |-> Px(300), vel_y |-> Px(300)]
NewPaddle == [width |-> Px(100), height |-> Px(20),
              x |-> (Px(WINDOW_WIDTH) \div 2) - Px(50),
              y |-> Px(WINDOW_HEIGHT) - Px(40),
              vel_x |-> 0, vel_y |-> 0]

\* Game::new: the Game value
NewGame == [ball |-> NewBall, paddle |-> NewPaddle,
            last_frame_time |-> Now,
            game_is_running |-> TRUE,
            lives |-> 3,
            score |-> 0,
            is_paused |-> FALSE,
            pause_start |-> None,
            ball_reset_pending |-> FALSE]

\* process_input with the Escape test inside the not-paused branch
process_input_EscapeUnlessPaused(g, held) ==
    IF ~g.is_paused
    THEN LET g1 == IF "Escape" \in held
                   THEN [g EXCEPT !.game_is_running = FALSE]
                   ELSE g
         IN  IF "Left" \in held THEN [g1 EXCEPT !.paddle.vel_x = -Px(400)]
             ELSE IF "Right" \in held THEN [g1 EXCEPT !.paddle.vel_x = Px(400)]
             ELSE [g1 EXCEPT !.paddle.vel_x = 0]
    ELSE g

\* process_input that stops the paddle while the game is paused
process_input_StopsWhenPaused(g, held) ==
    LET g1 == IF "Escape" \in held
              THEN [g EXCEPT !.game_is_running = FALSE]
              ELSE g
    IN  IF ~g1.is_paused
        THEN IF "Left" \in held THEN [g1 EXCEPT !.paddle.vel_x = -Px(400)]
             ELSE IF "Right" \in held THEN [g1 EXCEPT !.paddle.vel_x = Px(400)]
             ELSE [g1 EXCEPT !.paddle.vel_x = 0]
        ELSE [g1 EXCEPT !.paddle.vel_x = 0]

\* Game::process_input with the set of keys that are down
process_input(g, held) ==
    LET g1 == IF "Escape" \in held
              THEN [g EXCEPT !.game_is_running = FALSE]
              ELSE g
    IN  IF ~g1.is_paused
        THEN IF "Left" \in held THEN [g1 EXCEPT !.paddle.vel_x = -Px(400)]
             ELSE IF "Right" \in held THEN [g1 EXCEPT !.paddle.vel_x = Px(400)]
             ELSE [g1 EXCEPT !.paddle.vel_x = 0]
        ELSE g1

\* reset_ball that leaves the ball's velocity alone
reset_ballKeepsVelocity(g) ==
    [g EXCEPT !.ball.x = (Px(WINDOW_WIDTH) \div 2) - (g.ball.width \div 2),
              !.ball.y = (Px(WINDOW_HEIGHT) \div 2) - (g.ball.height \div 2)]

\* Game::reset_ball
reset_ball(g) ==
    [g EXCEPT !.ball.x = (Px(WINDOW_WIDTH) \div 2) - (g.ball.width \div 2),
              !.ball.y = (Px(WINDOW_HEIGHT) \div 2) - (g.ball.height \div 2),
              !.ball.vel_x = Px(300),
              !.ball.vel_y = Px(300)]

\* PauseWaiting with the pause one tick too short
PauseWaitingShort(g) ==
    /\ g.is_paused
    /\ g.pause_start # None
    /\ Elapsed(Unwrap(g.pause_start)) < PAUSE_DURATION - 1

\* PauseWaiting that never sees the pause end
PauseWaitingForever(g) ==
    /\ g.is_paused
    /\ g.pause_start # None

\* update, lines 101-112: the pause is running and not yet over (early return)
PauseWaiting(g) ==
    /\ g.is_paused
    /\ g.pause_start # None
    /\ Elapsed(Unwrap(g.pause_start)) < PAUSE_DURATION

\* update, lines 101-107: the pause is over
PauseElapsed(g) ==
    /\ g.is_paused
    /\ g.pause_start # None
    /\ Elapsed(Unwrap(g.pause_start)) >= PAUSE_DURATION

\* EndPause that keeps the pause-start timestamp
EndPauseKeepsStart(g) ==
    reset_ball([g EXCEPT !.is_paused = FALSE,
                         !.ball_reset_pending = TRUE])

\* update, lines 104-107
EndPause(g) ==
    reset_ball([g EXCEPT !.is_paused = FALSE,
                         !.pause_start = None,
                         !.ball_reset_pending = TRUE])

\* Resync without the new baseline
ResyncKeepsBaseline(g) ==
    [g EXCEPT !.ball_reset_pending = FALSE]

\* update, lines 115-119
Resync(g) ==
    [g EXCEPT !.ball_reset_pending = FALSE,
              !.last_frame_time = Now]

\* update, lines 122-123: delta_time in ticks
DeltaTime(g) == Now - g.last_frame_time

\* velocity * delta_time, delta_time converted to seconds (as_secs_f32)
Travel(vel, dt) == (vel * dt) \div TicksPerSecond

\* update, lines 124-129
Integrate(g, dt) ==
    [g EXCEPT !.last_frame_time = Now,
              !.ball.x = @ + Travel(g.ball.vel_x, dt),
              !.ball.y = @ + Travel(g.ball.vel_y, dt),
              !.paddle.x = @ + Travel(g.paddle.vel_x, dt)]

\* HitsSideWall with strict comparisons
HitsSideWallStrict(b) == b.x < 0 \/ Right(b) > Px(WINDOW_WIDTH)

\* update, lines 132-134
HitsSideWall(b) == b.x <= 0 \/ Right(b) >= Px(WINDOW_WIDTH)

\* SideWalls without the right wall
SideWallsLeftOnly(g) ==
    IF g.ball.x <= 0 THEN [g EXCEPT !.ball.vel_x = -@] ELSE g

SideWalls(g) ==
    IF HitsSideWall(g.ball) THEN [g EXCEPT !.ball.vel_x = -@] ELSE g

\* update, lines 136-138
TopWall(g) ==
    IF g.ball.y <= 0 THEN [g EXCEPT !.ball.vel_y = -@] ELSE g

\* update, lines 141-147
HitsPaddle(b, p) ==
    /\ Bottom(b) >= p.y
    /\ Right(b) >= p.x
    /\ b.x <= Right(p)

\* PaddleCollision that scores two points
PaddleCollisionScoresTwo(g) ==
    IF HitsPaddle(g.ball, g.paddle)
    THEN [g EXCEPT !.ball.vel_y = -@, !.score = @ + 2]
    ELSE g

\* PaddleCollision with a debounce: only a ball that moves down bounces
PaddleCollisionDebounced(g) ==
    IF HitsPaddle(g.ball, g.paddle) /\ g.ball.vel_y > 0
    THEN [g EXCEPT !.ball.vel_y = -@, !.score = @ + 1]
    ELSE g

PaddleCollision(g) ==
    IF HitsPaddle(g.ball, g.paddle)
    THEN [g EXCEPT !.ball.vel_y = -@, !.score = @ + 1]
    ELSE g

\* ClampPaddle without the left boundary
ClampPaddleRightOnly(g) ==
    IF g.paddle.x >= Px(WINDOW_WIDTH) - g.paddle.width
    THEN [g EXCEPT !.paddle.x = Px(WINDOW_WIDTH) - g.paddle.width]
    ELSE g

\* update, lines 150-156
ClampPaddle(g) ==
    LET g1 == IF g.paddle.x <= 0 THEN [g EXCEPT !.paddle.x = 0] ELSE g
    IN  IF g1.paddle.x >= Px(WINDOW_WIDTH) - g1.paddle.width
        THEN [g1 EXCEPT !.paddle.x = Px(WINDOW_WIDTH) - g1.paddle.width]
        ELSE g1

\* LifeLoss with the ball left moving when a life is lost
LifeLossKeepsVelocity(g) ==
    IF Bottom(g.ball) > Px(WINDOW_HEIGHT)
    THEN LET g1 == [g EXCEPT !.lives = @ - 1]
         IN  IF g1.lives > 0
             THEN [g1 EXCEPT
                     !.is_paused = TRUE,
                     !.pause_start = Some(Now),
                     !.ball.x = (Px(WINDOW_WIDTH) \div 2) - (g.ball.width \div 2),
                     !.ball.y = (Px(WINDOW_HEIGHT) \div 2) - (g.ball.height \div 2)]
             ELSE [g1 EXCEPT !.game_is_running = FALSE]
    ELSE g

\* LifeLoss that leaves the game running after the last life
LifeLossKeepsRunning(g) ==
    IF Bottom(g.ball) > Px(WINDOW_HEIGHT)
    THEN LET g1 == [g EXCEPT !.lives = @ - 1]
         IN  IF g1.lives > 0
             THEN [g1 EXCEPT
                     !.is_paused = TRUE,
                     !.pause_start = Some(Now),
                     !.ball.x = (Px(WINDOW_WIDTH) \div 2) - (g.ball.width \div 2),
                     !.ball.y = (Px(WINDOW_HEIGHT) \div 2) - (g.ball.height \div 2),
                     !.ball.vel_x = 0,
                     !.ball.vel_y = 0]
             ELSE g1
    ELSE g

\* update, lines 159-172
FellOut(b) == Bottom(b) > Px(WINDOW_HEIGHT)
LifeLoss(g) ==
    IF FellOut(g.ball)
    THEN LET g1 == [g EXCEPT !.lives = @ - 1]
         IN  IF g1.lives > 0
             THEN [g1 EXCEPT
                     !.is_paused = TRUE,
                     !.pause_start = Some(Now),
                     !.ball.x = (Px(WINDOW_WIDTH) \div 2) - (g.ball.width \div 2),
                     !.ball.y = (Px(WINDOW_HEIGHT) \div 2) - (g.ball.height \div 2),
                     !.ball.vel_x = 0,
                     !.ball.vel_y = 0]
             ELSE [g1 EXCEPT !.game_is_running = FALSE]
    ELSE g

\* update, lines 122-172: the frame that moves the ball and the paddle
Physics(g) ==
    LifeLoss(ClampPaddle(PaddleCollision(TopWall(SideWalls(
        Integrate(g, DeltaTime(g)))))))

\* update that returns when the pause ends and resynchronises in the next call
updateDeferredResync(g) ==
    IF PauseWaiting(g) THEN g
    ELSE IF PauseElapsed(g) THEN EndPause(g)
    ELSE IF g.ball_reset_pending THEN Resync(g) ELSE Physics(g)

\* update that moves the ball and the paddle in the call that ends the pause
updateIntegratesOnResume(g) ==
    IF PauseWaiting(g) THEN g
    ELSE Physics(IF PauseElapsed(g)
                 THEN [EndPause(g) EXCEPT !.ball_reset_pending = FALSE]
                 ELSE g)

\* Game::update
update(g) ==
    IF PauseWaiting(g) THEN g
    ELSE LET g1 == IF PauseElapsed(g) THEN EndPause(g) ELSE g
         IN  IF g1.ball_reset_pending THEN Resync(g1) ELSE Physics(g1)

\* f32 as usize: truncates toward zero, a negative value gives 0
AsUsize(v) == IF v <= 0 THEN 0 ELSE v \div SubPixel

\* main, line 216: buffer.len()
BufferLen == WINDOW_WIDTH * WINDOW_HEIGHT

\* render, lines 191-196 and 201-206: the inner loop of row y of object o
\* writes the indices first .. first + width - 1 that are below buffer.len()
RowRun(o, y) ==
    LET first == (AsUsize(o.y) + y) * WINDOW_WIDTH + AsUsize(o.x)
        last == first + AsUsize(o.width) - 1
    IN  IF first >= BufferLen THEN {}
        ELSE {<<first, IF last < BufferLen THEN last ELSE BufferLen - 1>>}

\* render, lines 190-197 and 200-207: the rows of object o
Paint(o) == UNION {RowRun(o, y) : y \in 0..(AsUsize(o.height) - 1)}

\* Game::render: the buffer after the clear and the two paint loops
render(g) == Paint(g.ball) \cup Paint(g.paddle)

\* which of its three paths a call of update takes
UpdateKind(g) ==
    IF PauseWaiting(g) THEN "wait"
    ELSE IF (IF PauseElapsed(g) THEN EndPause(g) ELSE g).ball_reset_pending
         THEN "resync"
         ELSE "integrate"

\* the clock advances by d ticks: every stored Instant recedes by d
Recede(o, d) == IF o = None THEN None ELSE Some(Unwrap(o) - d)
Pass(g, d) ==
    [g EXCEPT !.last_frame_time = @ - d,
              !.pause_start = Recede(@, d)]

\* ---- history (not program state) ----
\* down: the keys that were down when process_input last sampled them in
\*       the current frame.
\* window_open: the window's answer at the last loop test.
\* upd:  what the most recent call of update did.
\* overruns: the number of frames so far that lasted more than one tick.
\* mark: the instants of the last life loss and of the last
\*       resynchronisation of last_frame_time, kept until the next
\*       integration, and the length of the pause that was ended since the
\*       last life loss.
NoUpdate == [kind |-> "none", delta_time |-> 0, hit |-> FALSE, lost |-> FALSE,
             resumed |-> FALSE, clamped |-> "no", streak |-> 0,
             since_resync |-> None, since_loss |-> None]
NoMark == [loss |-> None, resync |-> None, paused_for |-> None]
Min(a, b) == IF a < b THEN a ELSE b

Init ==
    /\ game = NewGame
    /\ buffer = {}
    /\ pc = "loop"
    /\ down = {}
    /\ window_open = TRUE
    /\ upd = NoUpdate
    /\ mark = NoMark
    /\ overruns = 0

\* the loop condition without the running flag
LoopIgnoresRunning(g, is_open) == is_open

\* main, line 219: the loop condition; is_open is the window's answer
LoopCondition(g, is_open) == g.game_is_running /\ is_open

\* main, line 219: the loop test
LoopTest ==
    /\ pc = "loop"
    /\ game.score < MaxScore \/ game.is_paused
    /\ \E is_open \in BOOLEAN :
         /\ pc' = IF LoopCondition(game, is_open) THEN "process_input" ELSE "done"
         /\ window_open' = is_open
    /\ down' = {}
    /\ UNCHANGED <<game, buffer, upd, mark, overruns>>

\* main, line 220, with the keys that are down drawn from ks
ProcessInputWith(ks) ==
    /\ pc = "process_input"
    /\ \E d \in SUBSET ks :
         /\ game' = process_input(game, d)
         /\ down' = d
    /\ pc' = "update"
    /\ UNCHANGED <<buffer, window_open, upd, mark, overruns>>

\* main, line 220
ProcessInput == ProcessInputWith(Keys)

\* main, line 220, for a player who only ever presses Escape
ProcessInputEscapeOnly == ProcessInputWith({"Escape"})

\* main, line 221
Update ==
    /\ pc = "update"
    /\ game' = update(game)
    /\ pc' = "render"
    /\ LET kind == UpdateKind(game)
           lost == game'.lives # game.lives
           hit == game'.score # game.score
           mid == Integrate(game, DeltaTime(game)).paddle.x
           since(o) == IF kind = "integrate" /\ o # None
                       THEN Some(Elapsed(Unwrap(o))) ELSE None
       IN  /\ upd' = [kind |-> kind,
                      delta_time |-> IF kind = "integrate"
                                     THEN DeltaTime(game) ELSE 0,
                      hit |-> hit,
                      lost |-> lost,
                      resumed |-> PauseElapsed(game),
                      clamped |-> IF kind # "integrate" THEN "no"
                                  ELSE IF mid < 0 THEN "left"
                                  ELSE IF mid > Px(WINDOW_WIDTH) - game.paddle.width
                                  THEN "right" ELSE "no",
                      streak |-> IF hit THEN Min(upd.streak + 1, 2) ELSE 0,
                      since_resync |-> since(mark.resync),
                      since_loss |-> since(mark.loss)]
           /\ mark' = [loss |-> IF lost /\ game'.is_paused THEN Some(Now)
                                ELSE IF kind = "integrate" THEN None
                                ELSE mark.loss,
                       resync |-> IF kind = "resync" THEN Some(Now)
                                  ELSE IF kind = "integrate" THEN None
                                  ELSE mark.resync,
                       paused_for |-> IF lost THEN None
                                      ELSE IF PauseElapsed(game)
                                      THEN Some(Elapsed(Unwrap(game.pause_start)))
                                      ELSE mark.paused_for]
    /\ UNCHANGED <<buffer, down, window_open, overruns>>

\* main, line 222
Render ==
    /\ pc = "render"
    /\ buffer' = render(game)
    /\ pc' = "sleep"
    /\ UNCHANGED <<game, down, window_open, upd, mark, overruns>>

\* main, line 223: sleep for at least FRAME_TARGET_TIME milliseconds
Sleep ==
    /\ pc = "sleep"
    /\ \E d \in 1..MaxDelta :
         /\ d * 1000 >= FRAME_TARGET_TIME * TicksPerSecond
         /\ d > 1 => overruns < MaxOverruns
         /\ overruns' = IF d > 1 THEN overruns + 1 ELSE overruns
         /\ game' = Pass(game, d)
         /\ mark' = [loss |-> Recede(mark.loss, d),
                     resync |-> Recede(mark.resync, d),
                     paused_for |-> mark.paused_for]
    /\ pc' = "loop"
    /\ UNCHANGED <<buffer, down, window_open, upd>>

Next == LoopTest \/ ProcessInput \/ Update \/ Render \/ Sleep

Spec == Init /\ [][Next]_vars

\* the main loop keeps executing: a step that can be taken is taken
FairNext == LoopTest \/ ProcessInputEscapeOnly \/ Update \/ Render \/ Sleep
FairSpec == Init /\ [][FairNext]_vars /\ WF_vars(FairNext)

\* ---- one frame from a state of play in which the ball is about to arrive
\* at an edge ----
\* positions at which the ball arrives after a frame of one tick: at, just
\* inside and away from the side walls; at and just below the top; just
\* above and at the paddle's top; at and just below the viewport's bottom
EdgeBallXs == {0, 1, Px(400), Px(785) - 1, Px(785)}
EdgeBallYs == {0, 1, Px(545) - 1, Px(545), Px(585), Px(585) + 1}
\* paddle positions: spans apart by half a pixel, touching at either end,
\* and overlapping, for a ball that arrives at x = 400
EdgePaddleXs == {Px(300) - 1, Px(300), Px(350), Px(415), Px(415) + 1}

\* a game in play at the end of a frame (render has just run): the ball is
\* inside the viewport's bottom, moves at (+-300, +-300), and is one tick
\* away from (tx, ty); the paddle rests at px
EdgeGame(tx, ty, vx, vy, px, n) ==
    [NewGame EXCEPT !.ball.x = tx - Travel(vx, 1),
                    !.ball.y = ty - Travel(vy, 1),
                    !.ball.vel_x = vx,
                    !.ball.vel_y = vy,
                    !.paddle.x = px,
                    !.lives = n]

EdgeInit ==
    /\ \E tx \in EdgeBallXs, ty \in EdgeBallYs,
          vx \in {Px(300), -Px(300)}, vy \in {Px(300), -Px(300)},
          px \in EdgePaddleXs, n \in 1..3 :
         /\ game = EdgeGame(tx, ty, vx, vy, px, n)
         /\ ~FellOut(game.ball)
    /\ buffer = render(game)
    /\ pc = "sleep"
    /\ down = {}
    /\ window_open = TRUE
    /\ upd = NoUpdate
    /\ mark = NoMark
    /\ overruns = 0

\* the frame that follows, up to its render
BeforeUpdate == upd.kind = "none"

EdgeNext ==
    \/ BeforeUpdate /\ Sleep
    \/ BeforeUpdate /\ LoopTest
    \/ BeforeUpdate /\ ProcessInput
    \/ BeforeUpdate /\ Update
    \/ Render

EdgeSpec == EdgeInit /\ [][EdgeNext]_vars

\* ---- the claims ----
\* the step is a call of update that integrates positions
Integrating == pc = "update" /\ pc' = "render" /\ upd'.kind = "integrate"

\* positions after the integration of an integrating update, from the state
\* before the call
BallXAfter == game.ball.x + (game.ball.vel_x * (Now - game.last_frame_time)) \div TicksPerSecond
BallYAfter == game.ball.y + (game.ball.vel_y * (Now - game.last_frame_time)) \div TicksPerSecond
PaddleXAfter == game.paddle.x + (game.paddle.vel_x * (Now - game.last_frame_time)) \div TicksPerSecond
BallFalls == BallYAfter + game.ball.height > Px(600)

CentreX == Px(800) \div 2 - Px(15) \div 2
CentreY == Px(600) \div 2 - Px(15) \div 2

C2_GameOver ==
    [][ /\ (Integrating /\ game.lives = 1 /\ BallFalls)
           => /\ game'.lives = 0
              /\ ~game'.game_is_running
              /\ ~game'.is_paused
        /\ game.lives = 0
           => /\ pc' # "update"
              /\ game'.ball = game.ball
              /\ game'.paddle = game.paddle
              /\ game'.lives = game.lives
              /\ game'.score = game.score ]_vars

\* the loop has ended after the last life was lost
C2_Witness ==
    /\ pc = "done"
    /\ game.lives = 0
    /\ ~game.game_is_running
    /\ upd.lost

\* the pause has lasted at least the pause duration when update is called
PauseOver ==
    /\ pc = "update"
    /\ game.is_paused
    /\ game.pause_start # None
    /\ Now - Unwrap(game.pause_start) >= Secs(2)

\* the ball is served: centred, with velocity (300,300)
Served(g) ==
    /\ g.ball.x = CentreX
    /\ g.ball.y = CentreY
    /\ g.ball.vel_x = Px(300)
    /\ g.ball.vel_y = Px(300)

\* C3 as claimed: the update that ends a pause of at least 2 s leaves the
\* game not paused with the ball served, and the update immediately
\* following it moves neither ball nor paddle and sets last_frame_time to now.
C3_Original ==
    [][ /\ PauseOver => (~game'.is_paused /\ Served(game'))
        /\ (pc = "update" /\ upd.resumed)
           => /\ game'.ball.x = game.ball.x
              /\ game'.ball.y = game.ball.y
              /\ game'.paddle.x = game.paddle.x
              /\ game'.last_frame_time = Now ]_vars

\* C3 (amended): the update that ends a pause of at least 2 s leaves the
\* game not paused with the ball served, moves nothing, and itself clears
\* the reset-pending flag and sets last_frame_time to now; the update
\* immediately following it integrates positions over the time elapsed since
\* that call.
C3_ResumeThenIntegrate ==
    [][ /\ PauseOver
           => /\ ~game'.is_paused
              /\ Served(game')
              /\ game'.paddle.x = game.paddle.x
              /\ ~game'.ball_reset_pending
              /\ game'.last_frame_time = Now
              /\ upd'.kind = "resync"
        /\ (pc = "update" /\ upd.resumed)
           => /\ upd'.kind = "integrate"
              /\ upd'.since_resync = Some(upd'.delta_time)
              /\ upd'.delta_time = Now - game.last_frame_time
              /\ game'.last_frame_time = Now
              /\ ~upd'.lost => /\ game'.ball.x = BallXAfter
                               /\ game'.ball.y = BallYAfter ]_vars

\* the first update after a resume has moved the ball away from the centre
C3_Witness ==
    /\ pc = "render"
    /\ upd.kind = "integrate"
    /\ upd.since_resync # None
    /\ game.ball.x = CentreX + Travel(Px(300), upd.delta_time)
    /\ game.ball.y = CentreY + Travel(Px(300), upd.delta_time)

\* C4: an update called while the game is paused and less than 2 s have
\* elapsed since pause_start changes no field of the game; no step takes
\* the game out of the pause before 2 s have elapsed.
C4_PausedNoOp ==
    [][ (game.is_paused /\ game.pause_start # None
            /\ Now - Unwrap(game.pause_start) < Secs(2))
        => /\ pc = "update" => game' = game
           /\ game'.is_paused ]_vars

\* update has just returned early from a running pause
C4_Witness ==
    /\ pc = "render"
    /\ upd.kind = "wait"
    /\ game.is_paused
    /\ Now - Unwrap(game.pause_start) > 0

\* C5: the elapsed time used by the first integrating update after a pause
\* is the time since last_frame_time was resynchronised on resume; the time
\* from the life loss to the resume (at least the pause duration) is not in it.
C5_PauseNotIntegrated ==
    (upd.kind = "integrate" /\ upd.since_resync # None)
    => /\ upd.delta_time = Unwrap(upd.since_resync)
       /\ upd.since_loss # None
          => Unwrap(upd.since_loss) - upd.delta_time >= Secs(2)

\* the first integrating update after a pause has run
C5_Witness ==
    /\ pc = "render"
    /\ upd.kind = "integrate"
    /\ upd.since_resync # None
    /\ upd.since_loss # None
    /\ upd.delta_time = 2

\* C6: lives starts at 3 and score at 0; no step raises lives or lowers
\* score, and a step lowers lives by at most 1 and raises score by at most 1.
C6_LivesAndScoreMonotone ==
    /\ game.lives = 3
    /\ game.score = 0
    /\ [][ /\ game'.lives <= game.lives
           /\ game'.lives >= game.lives - 1
           /\ game'.score >= game.score
           /\ game'.score <= game.score + 1 ]_vars

\* a life has been lost and points have been scored
C6_Witness ==
    /\ game.lives < 3
    /\ game.score > 0

\* the paddle test on the integrated positions
Overlap ==
    /\ BallYAfter + game.ball.height >= game.paddle.y
    /\ BallXAfter + game.ball.width >= PaddleXAfter
    /\ BallXAfter <= PaddleXAfter + game.paddle.width

C8_PaddleClamp ==
    /\ [](game.paddle.x >= 0 /\ game.paddle.x <= Px(800) - Px(100))
    /\ [][ Integrating
           => game'.paddle.x = IF PaddleXAfter < 0 THEN 0
                               ELSE IF PaddleXAfter > Px(700) THEN Px(700)
                               ELSE PaddleXAfter ]_vars

\* the paddle was integrated past the left edge and is at 0
C8_Witness ==
    /\ pc = "render"
    /\ upd.clamped = "left"
    /\ game.paddle.x = 0

\* the side-wall test on the integrated position
AtSideWall == BallXAfter <= 0 \/ BallXAfter + game.ball.width >= Px(800)

\* C9 as claimed: an integrating update negates the ball's horizontal
\* velocity once if the integrated ball touches or passes a side wall and
\* leaves it unchanged otherwise.
C9_Original ==
    [][ Integrating
        => game'.ball.vel_x = IF AtSideWall THEN -game.ball.vel_x
                              ELSE game.ball.vel_x ]_vars

\* C9 (amended): the same, unless the update loses a life with lives
\* remaining, which leaves the horizontal velocity 0.
C9_WallBounceOnce ==
    [][ Integrating
        => game'.ball.vel_x = IF BallFalls /\ game.lives >= 2 THEN 0
                              ELSE IF AtSideWall THEN -game.ball.vel_x
                              ELSE game.ball.vel_x ]_vars

\* the ball has just bounced off the right wall
C9_Witness ==
    /\ pc = "render"
    /\ upd.kind = "integrate"
    /\ ~upd.lost
    /\ game.ball.x + game.ball.width >= Px(800)
    /\ game.ball.vel_x = -Px(300)

\* C10: whenever Escape was down at the sampling of the current frame the
\* running flag is false, paused or not; the flag never becomes true again;
\* the loop test starts a frame only if the flag is true and the window is
\* open and otherwise ends the loop, after which nothing runs.
C10_ExitPriority ==
    /\ []("Escape" \in down => ~game.game_is_running)
    /\ [][ /\ ~game.game_is_running => ~game'.game_is_running
           /\ pc = "loop"
              => pc' = IF game.game_is_running /\ window_open'
                       THEN "process_input" ELSE "done"
           /\ pc # "done" ]_vars

\* Escape was sampled while the game was paused
C10_Witness ==
    /\ pc = "update"
    /\ "Escape" \in down
    /\ game.is_paused
    /\ ~game.game_is_running

\* the paddle velocity that process_input derives from the keys
KeyVelocity(held) ==
    IF "Left" \in held THEN -Px(400)
    ELSE IF "Right" \in held THEN Px(400)
    ELSE 0

\* C11: process_input called while the game is paused leaves the paddle's
\* horizontal velocity as it was, whatever keys are down; called while not
\* paused it sets -400 for Left, else 400 for Right, else 0; the paddle's
\* position changes in no step of a frame that begins paused.
C11_PausedInputLeavesPaddle ==
    [][ /\ pc = "process_input"
           => game'.paddle.vel_x = IF game.is_paused THEN game.paddle.vel_x
                                   ELSE KeyVelocity(down')
        /\ game.is_paused => game'.paddle.x = game.paddle.x
        /\ pc # "update" => game'.paddle.x = game.paddle.x ]_vars

\* Left was sampled during a pause and the paddle still has its velocity
\* to the right from before the pause
C11_Witness ==
    /\ pc = "update"
    /\ game.is_paused
    /\ "Left" \in down
    /\ game.paddle.vel_x = Px(400)

\* C12: in every state the pause flag is true exactly if a pause-start
\* timestamp is present, and the game is never paused with lives = 0.
C12_PauseStateValid ==
    /\ game.is_paused <=> game.pause_start # None
    /\ ~(game.is_paused /\ game.lives = 0)

\* a pause has just been ended and its timestamp cleared
C12_Witness ==
    /\ pc = "render"
    /\ upd.resumed
    /\ ~game.is_paused
    /\ game.pause_start = None
    /\ game.lives < 3

\* C15: every call of update that moves the paddle starts with the pause
\* flag false, so process_input of the same frame set the paddle's velocity
\* from the keys then down, and that is the velocity applied.
C15_NoStaleVelocity ==
    [][ (pc = "update" /\ game'.paddle.x # game.paddle.x)
        => /\ ~game.is_paused
           /\ game.paddle.vel_x = KeyVelocity(down) ]_vars

\* the first integration after a pause has moved the paddle to the left
\* with Left down
C15_Witness ==
    /\ pc = "render"
    /\ upd.kind = "integrate"
    /\ upd.since_resync # None
    /\ "Left" \in down
    /\ game.paddle.vel_x = -Px(400)
    /\ upd.clamped = "no"
    /\ game.paddle.x > 0

C17_LivesInRange ==
    /\ [](/\ game.lives \in 0..3
          /\ game.lives = 0 => ~game.game_is_running
          /\ (pc = "loop" /\ game.game_is_running) => game.lives \in 1..3
          /\ pc = "process_input" => game.lives \in 1..3)
    /\ [][ game'.lives < game.lives
           => /\ ~game.is_paused
              /\ game.lives < 3
                 => /\ mark.paused_for # None
                    /\ Unwrap(mark.paused_for) >= Secs(2) ]_vars

\* a frame starts with one life left after the second pause has been ended
C17_Witness ==
    /\ pc = "loop"
    /\ game.game_is_running
    /\ game.lives = 1
    /\ ~game.is_paused
    /\ mark.paused_for = Some(Secs(2))

\* C18: while the loop keeps executing, a paused game eventually is not
\* paused any more or the loop has ended; a call of update in a pause keeps
\* the game paused exactly if less than 2 s have elapsed since pause_start,
\* and otherwise clears pause_start and serves the ball from the centre at
\* (300,300).
C18_EveryPauseEnds ==
    /\ game.is_paused ~> (~game.is_paused \/ pc = "done")
    /\ [][ (pc = "update" /\ game.is_paused /\ game.pause_start # None)
           => /\ game'.is_paused <=> Now - Unwrap(game.pause_start) < Secs(2)
              /\ ~game'.is_paused
                 => /\ game'.pause_start = None
                    /\ Served(game') ]_vars

\* a pause has been ended by the update called exactly 2 s after its start
C18_Witness ==
    /\ pc = "render"
    /\ upd.resumed
    /\ mark.paused_for = Some(Secs(2))
    /\ ~game.is_paused
    /\ Served(game)

\* the cell with index i lies in the integer-truncated rectangle of object o
InRect(i, o) ==
    LET col == i % 800
        row == i \div 800
    IN  /\ col >= AsUsize(o.x)
        /\ col < AsUsize(o.x) + AsUsize(o.width)
        /\ row >= AsUsize(o.y)
        /\ row < AsUsize(o.y) + AsUsize(o.height)

\* the run of cells lies in the integer-truncated rectangle of object o
RunInRect(run, o) ==
    /\ run[1] \div 800 = run[2] \div 800
    /\ InRect(run[1], o)
    /\ InRect(run[2], o)

\* C13: after render, every cell that is not background lies in the
\* ball's or in the paddle's integer-truncated rectangle, every index
\* written is below the buffer length, and rendering the same state again
\* gives the same buffer.
C13_OnlyTwoRectangles ==
    pc = "sleep"
    => /\ \A run \in buffer :
             \/ RunInRect(run, game.ball)
             \/ RunInRect(run, game.paddle)
             \/ \A i \in run[1]..run[2] :
                   InRect(i, game.ball) \/ InRect(i, game.paddle)
       /\ \A run \in buffer : run[2] < 800 * 600
       /\ buffer = render(game)

\* C14: no call of update both raises score and lowers lives.
C14_HitExcludesMiss ==
    [][ ~(game'.score > game.score /\ game'.lives < game.lives) ]_vars

\* the ball overlaps a side wall and moves away from it
LeavingWall ==
    \/ game.ball.x <= 0 /\ game.ball.vel_x > 0
    \/ game.ball.x + game.ball.width >= Px(800) /\ game.ball.vel_x < 0

\* the first half of C20: an integrating update that loses no life leaves
\* the ball at its position before plus velocity times elapsed time.
C20_NoPositionCorrection ==
    [][ (Integrating /\ game'.lives = game.lives)
        => /\ game'.ball.x = BallXAfter
           /\ game'.ball.y = BallYAfter ]_vars

\* C20: an integrating update that loses no life leaves the ball at its
\* position before plus velocity times elapsed time, and an integrating
\* update that starts with the ball overlapping a side wall and moving away
\* from it does not negate the ball's horizontal velocity again.
C20_VelocityOnly ==
    [][ /\ (Integrating /\ game'.lives = game.lives)
           => /\ game'.ball.x = BallXAfter
              /\ game'.ball.y = BallYAfter
        /\ (Integrating /\ LeavingWall)
           => game'.ball.vel_x # -game.ball.vel_x ]_vars

\* the paddle test on the integrated positions with the ball's bottom edge
\* exactly at the paddle's top
TouchesPaddleTop ==
    /\ BallYAfter + game.ball.height = game.paddle.y
    /\ BallXAfter + game.ball.width >= PaddleXAfter
    /\ BallXAfter <= PaddleXAfter + game.paddle.width

\* the integrated ball is exactly flush with a side wall
FlushWithSideWall ==
    BallXAfter = 0 \/ BallXAfter + game.ball.width = Px(800)

\* C19 as claimed: an integrating update negates the horizontal velocity
\* of a ball whose left edge is exactly 0 or whose right edge is exactly
\* 800, negates the vertical velocity of a ball whose top edge is exactly
\* 0, bounces and scores for a ball whose bottom edge is exactly the
\* paddle's top with spans touching or overlapping, and takes no life from
\* a ball whose bottom edge is exactly 600.
C19_Original ==
    [][ Integrating
        => /\ FlushWithSideWall => game'.ball.vel_x = -game.ball.vel_x
           /\ BallYAfter = 0 => game'.ball.vel_y = -game.ball.vel_y
           /\ TouchesPaddleTop
              => /\ game'.ball.vel_y = -game.ball.vel_y
                 /\ game'.score = game.score + 1
           /\ BallYAfter + game.ball.height = Px(600)
              => game'.lives = game.lives ]_vars

\* C19 (amended): the same, except that a ball flush with a side wall
\* whose update also loses a life with lives remaining ends with
\* horizontal velocity 0.
C19_EdgeContact ==
    [][ Integrating
        => /\ FlushWithSideWall
              => game'.ball.vel_x = IF BallFalls /\ game.lives >= 2 THEN 0
                                    ELSE -game.ball.vel_x
           /\ BallYAfter = 0 => game'.ball.vel_y = -game.ball.vel_y
           /\ TouchesPaddleTop
              => /\ game'.ball.vel_y = -game.ball.vel_y
                 /\ game'.score = game.score + 1
           /\ BallYAfter + game.ball.height = Px(600)
              => game'.lives = game.lives ]_vars

\* a ball that arrived with its left edge exactly at 0 has been turned
\* around
C19_Witness ==
    /\ pc = "render"
    /\ upd.kind = "integrate"
    /\ ~upd.lost
    /\ game.ball.x = 0
    /\ game.ball.vel_x = Px(300)
====
